---- MODULE Spec2Model ----
(***************************************************************************)
(* Model of the graph4j ingestion service: the AsyncWorker background      *)
(* queue (routers/ingest.py), the per-episode job add_episode_task, the    *)
(* dual-database save add_episode_dual (dual_embedding_graphiti.py) and    *)
(* the application lifespan (main.py) that starts and stops the worker.    *)
(*                                                                         *)
(* Scheduling is asyncio's: one thread, a step runs from one suspension    *)
(* point to the next.  Each action below is one such step.                 *)
(***************************************************************************)
EXTENDS Integers, Sequences, FiniteSets, TLC

\* ----------------------------------------------------------------- bounds
MaxJobs   == 2      \* jobs enqueued over one lifespan
MaxBatch  == 2      \* episodes in one POST /episodes request
MaxUuid   == 0      \* caller-supplied episode uuids are 1..MaxUuid (none: every uuid is generated)
MaxGroup  == 2      \* group ids are 1..MaxGroup
MaxTasks  == 2      \* worker tasks created by start() calls
MaxWorkerJobs == 2  \* jobs put on the queue while start / stop are called freely
MaxStoreJobs == 1   \* jobs enqueued while delete / clear requests are studied
MaxDeletes == 1     \* delete requests served
MaxClears == 2      \* clear requests served
MaxLimit  == 3      \* num_results of a search is -1..MaxLimit
MaxRes    == 2      \* results one store returns for one search
MaxItem   == 2      \* distinct edges / nodes a search can return

\* ------------------------------------------------------------ value sets
None      == 0                       \* Python None (uuid not supplied, no record)
Uuids     == 0..MaxUuid              \* Episode.uuid: None or supplied
Groups    == 1..MaxGroup
NoMode    == "<no attribute>"        \* AddEpisodesRequest declares no embedding_mode
Modes     == {"dual", "fast", "quality", "other", NoMode}
TaskIds   == 1..MaxTasks
NoRec     == [uuid |-> None, group |-> None]

\* a uuid generated by the store when the caller supplied none; never equal
\* to a supplied uuid and never equal to another generated one
uuid4(n)  == 0 - n

VARIABLES
    clients,        \* graphiti_client._default_graphiti/_fast_graphiti are set
    phase,          \* position of main.lifespan
    queue,          \* AsyncWorker.queue: job ids, head first
    task,           \* AsyncWorker.task: id of the task created last, None before
    wpc,            \* per worker task: its suspension point in worker()
    cur,            \* per worker task: the job it is executing, None if none
    cancelReq,      \* per worker task: Task.cancel() called, not yet delivered
    jobs,           \* every job ever enqueued, in enqueue order, with its history
    fastStore,      \* episode records in the fast database
    qualityStore,   \* episode records in the default (quality) database
    gen,            \* number of uuids generated so far
    queuedAtStop,   \* jobs that were in the queue when stop() was called
    responses,      \* the response each POST /episodes request got, in order
    sameDb,         \* settings.neo4j_fast_uri = settings.neo4j_uri
    adm,            \* the delete / clear request in progress, if any
    srch            \* the search_dual / search_nodes_dual call in progress

vars == <<clients, phase, queue, task, wpc, cur, cancelReq, jobs,
          fastStore, qualityStore, gen, queuedAtStop, responses, sameDb,
          adm, srch>>

\* no delete / clear request has been made yet
AdmIdle ==
    [op |-> "none",        \* the operation requested
     arg |-> None,         \* the uuid or group it names
     pc |-> "idle",        \* idle, quality, fast, done, error
     err |-> "none",       \* what failed it: not_found, store
     again |-> FALSE,      \* the request before it was the same and succeeded
     count |-> 0,          \* requests so far
     ended0 |-> {}]        \* the jobs that had ended when it arrived

\* the arguments of a search no one has made
NoArgs == [query |-> None, group |-> None, limit |-> 0, center |-> None]

\* no search call has been made yet
SrchIdle ==
    [via |-> "none",       \* direct call of the function, or endpoint
     asked |-> "none",     \* embedding_mode an endpoint's client sent
     mode |-> "none",      \* embedding_mode of the call
     kind |-> "none",      \* facts (search_dual) or nodes (search_nodes_dual)
     args |-> NoArgs,      \* query, group_ids, num_results, center_node_uuid
     pc |-> "idle",        \* idle, await, done
     fast |-> "none",      \* fast_client's search: none, pending, done, failed
     qual |-> "none",      \* default_client's search, likewise
     fastArgs |-> NoArgs,  \* what fast_client's search was called with
     qualArgs |-> NoArgs,  \* what default_client's search was called with
     fastRes |-> <<>>,     \* what fast_client's search returned
     qualRes |-> <<>>,     \* what default_client's search returned
     out |-> "none",       \* none, ok, error
     err |-> "none",       \* ValueError, store
     res |-> <<>>]         \* the list handed to the caller

JobIds == 1..Len(jobs)

\* a job as created by partial(add_episode_task, ep) inside one request
NewJob(u, g, m, r, p) ==
    [uuid |-> u, group |-> g, mode |-> m,
     req |-> r,              \* the request that submitted it
     pos |-> p,              \* index of its episode in request.episodes
     status |-> "queued",    \* queued, running, ok, failed, cancelled, discarded
     execs |-> 0,            \* times the worker started it
     extracts |-> 0,         \* add_episode (LLM extraction) invocations
     qattempts |-> 0,        \* save_episode_results invocations
     dual |-> "none",        \* add_episode_dual: none, fast_leg, quality_leg,
                             \*   returned, raised, cancelled
     cause |-> "none",       \* what raised: clients, attr, fast, quality, single
     fastRec |-> NoRec,      \* key of the episode it wrote to the fast store
     qualRec |-> NoRec]      \* key of the episode it wrote to the quality store

Init ==
    /\ clients = FALSE
    /\ phase = "boot"
    /\ queue = <<>>
    /\ task = None
    /\ wpc = [t \in TaskIds |-> "none"]
    /\ cur = [t \in TaskIds |-> None]
    /\ cancelReq = [t \in TaskIds |-> FALSE]
    /\ jobs = <<>>
    /\ fastStore = {}
    /\ qualityStore = {}
    /\ gen = 0
    /\ queuedAtStop = {}
    /\ responses = <<>>
    /\ sameDb = FALSE
    /\ adm = AdmIdle
    /\ srch = SrchIdle

\* ------------------------------------------------------- main.lifespan
\* initialize_graphiti: both module-level clients are created
initialize_graphiti ==
    /\ phase = "boot"
    /\ clients' = TRUE
    /\ phase' = "init"
    /\ UNCHANGED <<responses, sameDb, adm, srch>>
    /\ UNCHANGED <<queue, task, wpc, cur, cancelReq, jobs, fastStore,
                   qualityStore, gen, queuedAtStop>>

\* AsyncWorker.start: create_task(self.worker()); the new task is parked at
\* the top of its loop
start ==
    /\ phase = "init"
    /\ \E t \in TaskIds :
         /\ wpc[t] = "none"
         /\ \A s \in TaskIds : s < t => wpc[s] # "none"
         /\ task' = t
         /\ wpc' = [wpc EXCEPT ![t] = "get"]
    /\ phase' = "serving"
    /\ UNCHANGED <<responses, sameDb, adm, srch>>
    /\ UNCHANGED <<clients, queue, cur, cancelReq, jobs, fastStore,
                   qualityStore, gen, queuedAtStop>>

\* AsyncWorker.stop, first half: self.task.cancel() and the await on the task
stop_cancel ==
    /\ phase = "serving"
    /\ phase' = "stopping"
    /\ cancelReq' = [t \in TaskIds |->
                       IF t = task /\ wpc[t] \notin {"none", "done"}
                       THEN TRUE ELSE cancelReq[t]]
    /\ queuedAtStop' = {queue[i] : i \in 1..Len(queue)}
    /\ UNCHANGED <<responses, sameDb, adm, srch>>
    /\ UNCHANGED <<clients, queue, task, wpc, cur, jobs, fastStore,
                   qualityStore, gen>>

\* what the get_nowait loop of stop() leaves in the queue
stop_left_in_queue_keep(q) == q
stop_left_in_queue(q) == <<>>

\* AsyncWorker.stop, second half: the awaited task has ended; the queue is
\* emptied with get_nowait and stop() returns
stop_drain ==
    /\ phase = "stopping"
    /\ task # None => wpc[task] = "done"
    /\ queue' = stop_left_in_queue(queue)
    /\ jobs' = [j \in JobIds |->
                  IF /\ \E i \in 1..Len(queue) : queue[i] = j
                     /\ \A i \in 1..Len(queue') : queue'[i] # j
                  THEN [jobs[j] EXCEPT !.status = "discarded"] ELSE jobs[j]]
    /\ phase' = "stopped"
    /\ UNCHANGED <<responses, sameDb, adm, srch>>
    /\ UNCHANGED <<clients, task, wpc, cur, cancelReq, fastStore,
                   qualityStore, gen, queuedAtStop>>

\* where lifespan is when it calls close_graphiti: after `await
\* async_worker.stop()` has returned
close_called_any_time == {"serving", "stopping", "stopped"}
close_called_when == {"stopped"}

\* close_graphiti: both clients closed and the globals reset to None
close_graphiti ==
    /\ phase \in close_called_when
    /\ clients' = FALSE
    /\ phase' = "closed"
    /\ UNCHANGED <<responses, sameDb, adm, srch>>
    /\ UNCHANGED <<queue, task, wpc, cur, cancelReq, jobs, fastStore,
                   qualityStore, gen, queuedAtStop>>

\* -------------------------------------------------- POST /episodes
\* the episode the i-th queue.put of `for ep in request.episodes` carries
episode_put_reversed(n, i) == n + 1 - i
episode_put(n, i) == i

\* the jobs one request creates: partial(add_episode_task, ep) per episode
JobsOf(us, g, m, r) ==
    [i \in 1..Len(us) |->
        NewJob(us[episode_put(Len(us), i)], g, m, r, episode_put(Len(us), i))]

\* what the handler returns once the puts are done
Accepted(n) == [n |-> n, success |-> TRUE]

\* the group_id values a request is followed with: the code treats group ids
\* alike, so a request names a group already in use or the least unused one
GroupsNext ==
    {g \in Groups :
        \A h \in Groups : h < g => \E j \in JobIds : jobs[j].group = h}

\* add_episodes: one job per episode of the request, put on the queue in the
\* order of request.episodes; the puts on an unbounded queue never suspend,
\* so the handler returns its Result in the same step
submit(most, modes) ==
    /\ phase = "serving"
    /\ \E n \in 1..MaxBatch, g \in GroupsNext, m \in modes :
         /\ Len(jobs) + n <= most
         /\ \E us \in [1..n -> Uuids] :
              /\ jobs' = jobs \o JobsOf(us, g, m, Len(responses) + 1)
              /\ queue' = queue \o [i \in 1..n |-> Len(jobs) + i]
              /\ responses' = Append(responses, Accepted(n))
    /\ UNCHANGED <<clients, phase, task, wpc, cur, cancelReq, fastStore,
                   qualityStore, gen, queuedAtStop, sameDb, adm, srch>>

add_episodes == submit(MaxJobs, Modes)

\* ------------------------------------------------ AsyncWorker.worker
\* the job `await self.queue.get()` hands to the worker
queue_get_last(q) == q[Len(q)]
queue_get(q) == Head(q)

\* the queue after that get: the job handed out is removed
queue_after_get_peek(q) == q
queue_after_get(q) == Tail(q)

\* where the loop goes after `except Exception` has logged a failed job
after_job_exception_exit == "done"
after_job_exception == "get"

\* the loop's handler for CancelledError: `except asyncio.CancelledError:
\* break`, which does not ask where the cancellation came from
after_job_cancelled_continue == "get"
after_job_cancelled == "done"

\* get_clients: raises RuntimeError unless both clients are initialized
get_clients_ok == clients

\* add_episode_task up to its first suspension point: the branch taken on
\* request.embedding_mode, or the exception raised before any store call
add_episode_task_branch(m) ==
    IF ~get_clients_ok THEN "clients"
    ELSE IF m = NoMode THEN "attr"
    ELSE IF m = "dual" THEN "fast_leg"
    ELSE IF m = "fast" THEN "fast_only"
    ELSE "quality_only"

Raised(j, why) ==
    [jobs[j] EXCEPT !.status = "failed", !.cause = why]

\* one turn of the loop: the head job is taken off the queue and started; it
\* runs until it awaits a store call, or fails before reaching one
worker_get(t) ==
    /\ wpc[t] = "get"
    /\ ~cancelReq[t]
    /\ queue # <<>>
    /\ LET j  == queue_get(queue)
           br == add_episode_task_branch(jobs[j].mode)
           started == [jobs[j] EXCEPT !.execs = @ + 1]
       IN  /\ queue' = queue_after_get(queue)
           /\ IF br \in {"clients", "attr"}
              THEN /\ jobs' = [jobs EXCEPT ![j] =
                         [started EXCEPT !.status = "failed", !.cause = br]]
                   /\ wpc' = [wpc EXCEPT ![t] = after_job_exception]
                   /\ cur' = cur
              ELSE /\ jobs' = [jobs EXCEPT ![j] =
                         [started EXCEPT !.status = "running",
                                         !.extracts = @ + 1,
                                         !.dual = IF br = "fast_leg"
                                                  THEN "fast_leg" ELSE "none"]]
                   /\ wpc' = [wpc EXCEPT ![t] = br]
                   /\ cur' = [cur EXCEPT ![t] = j]
    /\ UNCHANGED <<responses, sameDb, adm, srch>>
    /\ UNCHANGED <<clients, phase, task, cancelReq, fastStore, qualityStore,
                   gen, queuedAtStop>>

\* ------------------------------------------------- add_episode_dual
\* the episode node a store's add_episode persists: the caller's uuid, or a
\* generated one when the caller passed None
EpisodeKey(u, g, n) ==
    [uuid |-> IF u = None THEN uuid4(n) ELSE u, group |-> g]

\* the episodic node a store holds for an episode
StoreRec(key, emb) ==
    [kind |-> "episode", uuid |-> key.uuid, group |-> key.group, emb |-> emb]

\* what one extraction yields and a store persists for it: the episodic node,
\* an entity node and an entity edge of the same group, the entity node and
\* edge carrying vectors of the embedder named
Extracted(key, emb) ==
    {StoreRec(key, emb),
     [kind |-> "node", uuid |-> key.uuid, group |-> key.group, emb |-> emb],
     [kind |-> "edge", uuid |-> key.uuid, group |-> key.group, emb |-> emb]}

\* a store after recs are persisted: a record replaces the one of the same
\* kind and uuid
Persist(store, recs) ==
    {r \in store : ~\E n \in recs : n.kind = r.kind /\ n.uuid = r.uuid}
        \cup recs

\* add_episode_dual's arguments to save_episode_results: the quality client's
\* embedder, and the flag that drops the vectors the fast leg computed
save_embedder == "quality"
save_clear_embeddings_off == FALSE
save_clear_embeddings == TRUE

\* save_episode_results: persists the given extraction; with clear set every
\* vector is dropped and computed again by the embedder given, otherwise a
\* vector already present is kept
save_episode_results(recs, embedder, clear) ==
    {[r EXCEPT !.emb = IF clear THEN embedder ELSE @] : r \in recs}

\* what the quality leg persists for the extraction of the fast leg
Replicated(key) ==
    save_episode_results(Extracted(key, "fast"), save_embedder,
                         save_clear_embeddings)

\* the two databases after a write through one client: with a single
\* underlying database both clients see the write
AfterWrite(target, recs) ==
    [fast    |-> IF target = "fast" \/ sameDb
                 THEN Persist(fastStore, recs) ELSE fastStore,
     quality |-> IF target = "quality" \/ sameDb
                 THEN Persist(qualityStore, recs) ELSE qualityStore]

\* whether control reaches save_episode_results, given how the awaited
\* fast add_episode ended
save_reached_always(fast_ok) == TRUE
save_reached(fast_ok) == fast_ok

\* add_episode_dual once fast add_episode has returned: it is awaiting
\* save_episode_results
dual_after_fast_leg_detached == "returned"
dual_after_fast_leg == "quality_leg"

\* where the worker is once fast add_episode has returned: held inside the
\* job by `await save_episode_results(...)`, which is not made a task
worker_after_fast_leg_free == "get"
worker_after_fast_leg == "quality_leg"

\* the episode handed to save_episode_results: fast_result.episode
quality_episode_from_request(fastRec, u, g, n) == EpisodeKey(u, g, n)
quality_episode(fastRec, u, g, n) == fastRec

\* how add_episode_dual ends when save_episode_results raises
dual_on_quality_failure_swallowed == "returned"
dual_on_quality_failure == "raised"

\* the fast store once save_episode_results has raised
fast_store_after_quality_failure_rollback(store, key) ==
    store \ {StoreRec(key, "fast")}
fast_store_after_quality_failure(store, key) == store

\* fast_graphiti.add_episode returns: extraction done, episode persisted with
\* fast embeddings; control moves on to save_episode_results
fast_leg_ok(t) ==
    /\ wpc[t] = "fast_leg"
    /\ ~cancelReq[t]
    /\ LET j   == cur[t]
           key == EpisodeKey(jobs[j].uuid, jobs[j].group, gen + 1)
           w   == AfterWrite("fast", Extracted(key, "fast"))
       IN  /\ fastStore' = w.fast
           /\ qualityStore' = w.quality
           /\ gen' = IF jobs[j].uuid = None THEN gen + 1 ELSE gen
           /\ IF save_reached(TRUE)
              THEN /\ jobs' = [jobs EXCEPT ![j].fastRec = key,
                                           ![j].qattempts = @ + 1,
                                           ![j].dual = dual_after_fast_leg]
                   /\ wpc' = [wpc EXCEPT ![t] = worker_after_fast_leg]
                   /\ cur' = cur
              ELSE /\ jobs' = [jobs EXCEPT ![j].fastRec = key,
                                           ![j].dual = "returned",
                                           ![j].status = "ok"]
                   /\ wpc' = [wpc EXCEPT ![t] = "get"]
                   /\ cur' = [cur EXCEPT ![t] = None]
    /\ UNCHANGED <<responses, sameDb, adm, srch>>
    /\ UNCHANGED <<clients, phase, queue, task, cancelReq, queuedAtStop>>

\* fast_graphiti.add_episode raises: the exception leaves add_episode_dual
\* and add_episode_task and is caught by the worker loop
fast_leg_fail(t) ==
    /\ wpc[t] = "fast_leg"
    /\ ~cancelReq[t]
    /\ LET j == cur[t]
       IN  IF save_reached(FALSE)
           THEN /\ jobs' = [jobs EXCEPT ![j].qattempts = @ + 1,
                                        ![j].cause = "fast",
                                        ![j].dual = dual_after_fast_leg]
                /\ wpc' = [wpc EXCEPT ![t] = "quality_leg"]
                /\ cur' = cur
           ELSE /\ jobs' = [jobs EXCEPT ![j] =
                      [Raised(j, "fast") EXCEPT !.dual = "raised"]]
                /\ wpc' = [wpc EXCEPT ![t] = after_job_exception]
                /\ cur' = [cur EXCEPT ![t] = None]
    /\ UNCHANGED <<responses, sameDb, adm, srch>>
    /\ UNCHANGED <<clients, phase, queue, task, cancelReq, fastStore,
                   qualityStore, gen, queuedAtStop>>

\* default_graphiti.save_episode_results returns: the extracted episode is
\* persisted in the quality store with quality embeddings, add_episode_dual
\* returns both results and the job completes
quality_leg_ok(t) ==
    /\ wpc[t] = "quality_leg"
    /\ ~cancelReq[t]
    /\ LET j   == cur[t]
           key == quality_episode(jobs[j].fastRec, jobs[j].uuid,
                                  jobs[j].group, gen + 1)
           w   == AfterWrite("quality", Replicated(key))
       IN  /\ qualityStore' = w.quality
           /\ fastStore' = w.fast
           /\ jobs' = [jobs EXCEPT ![j].qualRec = key,
                                   ![j].dual = "returned",
                                   ![j].status = "ok"]
    /\ wpc' = [wpc EXCEPT ![t] = "get"]
    /\ cur' = [cur EXCEPT ![t] = None]
    /\ UNCHANGED <<responses, sameDb, adm, srch>>
    /\ UNCHANGED <<clients, phase, queue, task, cancelReq, gen, queuedAtStop>>

\* default_graphiti.save_episode_results raises: nothing in add_episode_dual
\* catches it, so it reaches the worker loop, which logs it
quality_leg_fail(t) ==
    /\ wpc[t] = "quality_leg"
    /\ ~cancelReq[t]
    /\ LET j == cur[t]
       IN  /\ jobs' = [jobs EXCEPT ![j] =
                 [Raised(j, "quality") EXCEPT !.dual = dual_on_quality_failure]]
           /\ fastStore' = fast_store_after_quality_failure(fastStore,
                                                            jobs[j].fastRec)
    /\ wpc' = [wpc EXCEPT ![t] = after_job_exception]
    /\ cur' = [cur EXCEPT ![t] = None]
    /\ UNCHANGED <<responses, sameDb, adm, srch>>
    /\ UNCHANGED <<clients, phase, queue, task, cancelReq, qualityStore, gen,
                   queuedAtStop>>

\* ------------------------------------- add_episode_task, single store
\* fast_graphiti.add_episode ('fast') or default_graphiti.add_episode
\* (any other mode) returns: the episode is in that one store
single_ok(t) ==
    /\ wpc[t] \in {"fast_only", "quality_only"}
    /\ ~cancelReq[t]
    /\ LET j   == cur[t]
           key == EpisodeKey(jobs[j].uuid, jobs[j].group, gen + 1)
           wf  == AfterWrite("fast", Extracted(key, "fast"))
           wq  == AfterWrite("quality", Extracted(key, "quality"))
       IN  /\ gen' = IF jobs[j].uuid = None THEN gen + 1 ELSE gen
           /\ IF wpc[t] = "fast_only"
              THEN /\ fastStore' = wf.fast
                   /\ qualityStore' = wf.quality
                   /\ jobs' = [jobs EXCEPT ![j].fastRec = key,
                                           ![j].status = "ok"]
              ELSE /\ qualityStore' = wq.quality
                   /\ fastStore' = wq.fast
                   /\ jobs' = [jobs EXCEPT ![j].qualRec = key,
                                           ![j].status = "ok"]
    /\ wpc' = [wpc EXCEPT ![t] = "get"]
    /\ cur' = [cur EXCEPT ![t] = None]
    /\ UNCHANGED <<responses, sameDb, adm, srch>>
    /\ UNCHANGED <<clients, phase, queue, task, cancelReq, queuedAtStop>>

\* the single add_episode raises and the worker loop catches it
single_fail(t) ==
    /\ wpc[t] \in {"fast_only", "quality_only"}
    /\ ~cancelReq[t]
    /\ jobs' = [jobs EXCEPT ![cur[t]] = Raised(cur[t], "single")]
    /\ wpc' = [wpc EXCEPT ![t] = after_job_exception]
    /\ cur' = [cur EXCEPT ![t] = None]
    /\ UNCHANGED <<responses, sameDb, adm, srch>>
    /\ UNCHANGED <<clients, phase, queue, task, cancelReq, fastStore,
                   qualityStore, gen, queuedAtStop>>

\* ------------------------------------------ cancellation of the worker
\* CancelledError is thrown into the task at its suspension point: at
\* queue.get() the loop breaks; inside a job the job is abandoned there,
\* CancelledError passes `except Exception` and the loop breaks.  The store
\* call that was in flight may or may not have persisted its episode.
worker_cancelled(t) ==
    /\ cancelReq[t]
    /\ wpc[t] \notin {"none", "done", "created", "cancelled"}
    /\ cancelReq' = [cancelReq EXCEPT ![t] = FALSE]
    /\ wpc' = [wpc EXCEPT ![t] = after_job_cancelled]
    /\ cur' = [cur EXCEPT ![t] = None]
    /\ IF wpc[t] = "get"
       THEN UNCHANGED <<jobs, fastStore, qualityStore, gen>>
       ELSE \E wrote \in BOOLEAN :
            LET j    == cur[t]
                at   == wpc[t]
                key  == IF at = "quality_leg" THEN jobs[j].fastRec
                        ELSE EpisodeKey(jobs[j].uuid, jobs[j].group, gen + 1)
                fast == wrote /\ at \in {"fast_leg", "fast_only"}
                qual == wrote /\ at \in {"quality_leg", "quality_only"}
                d    == IF jobs[j].mode = "dual" THEN "cancelled" ELSE "none"
                w    == IF fast THEN AfterWrite("fast", Extracted(key, "fast"))
                        ELSE IF qual /\ at = "quality_leg"
                        THEN AfterWrite("quality", Replicated(key))
                        ELSE IF qual
                        THEN AfterWrite("quality", Extracted(key, "quality"))
                        ELSE [fast |-> fastStore, quality |-> qualityStore]
            IN  /\ fastStore' = w.fast
                /\ qualityStore' = w.quality
                /\ gen' = IF wrote /\ at # "quality_leg" /\ jobs[j].uuid = None
                          THEN gen + 1 ELSE gen
                /\ jobs' = [jobs EXCEPT ![j] =
                      [jobs[j] EXCEPT !.status = "cancelled", !.dual = d,
                                      !.fastRec = IF fast THEN key ELSE @,
                                      !.qualRec = IF qual THEN key ELSE @]]
    /\ UNCHANGED <<responses, sameDb, adm, srch>>
    /\ UNCHANGED <<clients, phase, queue, task, queuedAtStop>>

\* ------------------------------------------- delete and clear endpoints
DeleteOps == {"delete_entity_edge", "delete_episodic_node", "delete_group"}

\* identifiers a delete request can name: an episode uuid a client supplied
\* or one the service generated, or a group
AdminArgs(op) ==
    CASE op = "delete_group" -> Groups
      [] op = "clear"        -> {None}
      [] OTHER -> (Uuids \ {None}) \cup {uuid4(n) : n \in 1..MaxStoreJobs}

\* the records of one database an operation is aimed at
Targets(op, a, store) ==
    CASE op = "delete_entity_edge" ->
            {r \in store : r.kind = "edge" /\ r.uuid = a}
      [] op = "delete_episodic_node" ->
            {r \in store : r.kind = "episode" /\ r.uuid = a}
      [] op = "delete_group" -> {r \in store : r.group = a}
      [] OTHER -> store

\* delete_group._delete on one database: the edges, entity nodes and episodes
\* of the group are read and each one is deleted
delete_group_whole_store(store, g) == {}
delete_group_keeps_episodes(store, g) ==
    {r \in store : r.group # g \/ r.kind = "episode"}
delete_group_on(store, g) == {r \in store : r.group # g}

\* delete_entity_edge._delete and delete_episodic_node._delete on one database
delete_entity_edge_on(store, u) == store \ Targets("delete_entity_edge", u, store)
delete_episodic_node_on(store, u) ==
    store \ Targets("delete_episodic_node", u, store)

\* clear_data on one database
clear_data_keeps_episodes(store) == {r \in store : r.kind = "episode"}
clear_data(store) == {}

\* the databases the clear handler clears: the default client's, and the
\* fast client's since the default client carries a fast_client
clear_targets_default_only == {"quality"}
clear_targets == {"quality", "fast"}

\* the lookup that precedes a delete raises a not-found error
NotFound(op, a, store) ==
    /\ op \in {"delete_entity_edge", "delete_episodic_node", "delete_group"}
    /\ {r \in Targets(op, a, store) : op = "delete_group" => r.kind = "edge"} = {}

\* the except clauses around the lookups: EdgeNotFoundError,
\* NodeNotFoundError and GroupsEdgesNotFoundError are dropped
on_not_found_raise == "raise"
on_not_found == "pass"

\* one database after the operation ran on it
Applied(op, a, store) ==
    CASE op = "delete_entity_edge"   -> delete_entity_edge_on(store, a)
      [] op = "delete_episodic_node" -> delete_episodic_node_on(store, a)
      [] op = "delete_group"         -> delete_group_on(store, a)
      [] OTHER                       -> clear_data(store)

\* both databases after the operation ran through one client
AfterAdmin(target, op, a) ==
    [fast    |-> IF target = "fast" \/ sameDb
                 THEN Applied(op, a, fastStore) ELSE fastStore,
     quality |-> IF target = "quality" \/ sameDb
                 THEN Applied(op, a, qualityStore) ELSE qualityStore]

\* a DELETE /entity-edge, /episode, /group or POST /clear request arrives;
\* requests are served one after another
admin_call(ops, most) ==
    /\ phase = "serving"
    /\ adm.pc \in {"idle", "done", "error"}
    /\ adm.count < most
    /\ \E op \in ops : \E a \in AdminArgs(op) :
         adm' = [op |-> op, arg |-> a, pc |-> "quality", err |-> "none",
                 count |-> adm.count + 1,
                 again |-> adm.pc = "done" /\ adm.op = op /\ adm.arg = a,
                 ended0 |-> {j \in JobIds :
                               jobs[j].status \in {"ok", "failed", "cancelled"}}]
    /\ UNCHANGED <<clients, phase, queue, task, wpc, cur, cancelReq, jobs,
                   fastStore, qualityStore, gen, queuedAtStop, responses,
                   sameDb, srch>>

delete_request == admin_call(DeleteOps, MaxDeletes)
clear_request  == admin_call({"clear"}, MaxClears)

\* the first half of a handler: the operation on the default (quality)
\* client's database
admin_default ==
    /\ adm.pc = "quality"
    /\ IF NotFound(adm.op, adm.arg, qualityStore) /\ on_not_found = "raise"
       THEN /\ adm' = [adm EXCEPT !.pc = "error", !.err = "not_found"]
            /\ UNCHANGED <<fastStore, qualityStore>>
       ELSE LET w == AfterAdmin("quality", adm.op, adm.arg)
            IN  /\ qualityStore' = w.quality
                /\ fastStore' = w.fast
                /\ adm' = [adm EXCEPT !.pc =
                              IF adm.op = "clear" /\ "fast" \notin clear_targets
                              THEN "done" ELSE "fast"]
    /\ UNCHANGED <<clients, phase, queue, task, wpc, cur, cancelReq, jobs,
                   gen, queuedAtStop, responses, sameDb, srch>>

\* the second half: the same operation on graphiti.fast_client's database,
\* after which the handler returns its Result
admin_fast ==
    /\ adm.pc = "fast"
    /\ IF NotFound(adm.op, adm.arg, fastStore) /\ on_not_found = "raise"
       THEN /\ adm' = [adm EXCEPT !.pc = "error", !.err = "not_found"]
            /\ UNCHANGED <<fastStore, qualityStore>>
       ELSE LET w == AfterAdmin("fast", adm.op, adm.arg)
            IN  /\ qualityStore' = w.quality
                /\ fastStore' = w.fast
                /\ adm' = [adm EXCEPT !.pc = "done"]
    /\ UNCHANGED <<clients, phase, queue, task, wpc, cur, cancelReq, jobs,
                   gen, queuedAtStop, responses, sameDb, srch>>

\* where a handler is after a database call of one of its halves raised
\* something other than not-found: _delete catches the not-found errors
\* only, and the handlers catch nothing
after_store_error_swallowed == "fast"
after_store_error == "error"

\* the kinds of record a half that fails may have deleted before the call
\* that raised: delete_group deletes edges, then nodes, then episodes, one
\* awaited call each; the other operations make a single deleting call
failed_half_removed(op) ==
    IF op = "delete_group" THEN {{}, {"edge"}, {"edge", "node"}} ELSE {{}}

\* a database call of the handler raises something other than not-found
\* (the driver's errors are not caught): the request fails where it is
admin_store_error ==
    /\ adm.pc \in {"quality", "fast"}
    /\ adm' = [adm EXCEPT !.pc = after_store_error, !.err = "store"]
    /\ \E kinds \in failed_half_removed(adm.op) :
         LET cut(store) == {r \in store :
                              ~(r.group = adm.arg /\ r.kind \in kinds)}
         IN  /\ qualityStore' = IF adm.pc = "quality" \/ sameDb
                                THEN cut(qualityStore) ELSE qualityStore
             /\ fastStore' = IF adm.pc = "fast" \/ sameDb
                             THEN cut(fastStore) ELSE fastStore
    /\ UNCHANGED <<clients, phase, queue, task, wpc, cur, cancelReq, jobs,
                   gen, queuedAtStop, responses, sameDb, srch>>

\* ------------------------------------- search_dual / search_nodes_dual
\* embedding_mode values a caller sends: the three the functions name, the
\* name ingestion and the repository's clients use for the quality store,
\* and anything else
SearchModes == {"fast", "default", "dual", "quality", "other"}
Limits      == (0 - 1)..MaxLimit
Items       == 1..MaxItem
ResultLists == UNION {[1..n -> Items] : n \in 0..MaxRes}

Min(a, b) == IF a <= b THEN a ELSE b
Max(a, b) == IF a >= b THEN a ELSE b

\* Python's s[:n]
PySlice(s, n) ==
    IF n >= 0 THEN SubSeq(s, 1, Min(n, Len(s)))
    ELSE SubSeq(s, 1, Max(0, Len(s) + n))

\* the keyword arguments each of the two searches inside asyncio.gather is
\* called with
gather_args(a) == [fast |-> a, quality |-> a]

\* the searches asyncio.gather starts: both are scheduled before either is
\* awaited
gather_starts_fast_only == {"fast"}
gather_starts == {"fast", "quality"}

\* the searches the final else branch starts: none, it raises ValueError
invalid_mode_falls_back == {"quality"}
invalid_mode_searches == {}

\* the store searches a call starts, by embedding_mode
Issued(mode) ==
    CASE mode = "fast"    -> {"fast"}
      [] mode = "default" -> {"quality"}
      [] mode = "dual"    -> gather_starts
      [] OTHER            -> invalid_mode_searches

\* default results first, fast results after
merge_order_fast_first(d, f) == f \o d
merge_order(d, f) == d \o f

\* what the call returns once the searches it started have returned:
\* search_dual truncates the merged list, search_nodes_dual does not
SearchResult(s) ==
    CASE s.mode = "fast"    -> s.fastRes
      [] s.mode = "default" -> s.qualRes
      [] s.kind = "facts"   ->
            PySlice(merge_order(s.qualRes, s.fastRes), s.args.limit)
      [] OTHER              -> merge_order(s.qualRes, s.fastRes)

\* how the await on the searches ends: an exception of either search
\* leaves gather at once, else the results come when all have returned
gather_outcome_return_exceptions(fast, qual) ==
    IF "pending" \in {fast, qual} THEN "none" ELSE "ok"
gather_outcome(fast, qual) ==
    IF "failed" \in {fast, qual} THEN "error"
    ELSE IF "pending" \in {fast, qual} THEN "none"
    ELSE "ok"

\* the call after one of its searches has ended
Resumed(s) ==
    LET o == IF s.pc = "await" THEN gather_outcome(s.fast, s.qual) ELSE s.out
    IN  [s EXCEPT !.out = o,
                  !.pc  = IF o = "none" THEN "await" ELSE "done",
                  !.err = IF o = "error" THEN "store" ELSE @,
                  !.res = IF s.pc = "await" /\ o = "ok"
                          THEN SearchResult(s) ELSE @]

\* search_dual / search_nodes_dual entered with mode and arguments a, up to
\* its first await or its raise
Called(mode, kind, a) ==
    LET to == Issued(mode)
    IN  [SrchIdle EXCEPT
           !.via = "direct",
           !.mode = mode, !.kind = kind, !.args = a,
           !.pc   = IF to = {} THEN "done" ELSE "await",
           !.out  = IF to = {} THEN "error" ELSE "none",
           !.err  = IF to = {} THEN "ValueError" ELSE "none",
           !.fast = IF "fast" \in to THEN "pending" ELSE "none",
           !.qual = IF "quality" \in to THEN "pending" ELSE "none",
           !.fastArgs = IF "fast" \in to THEN gather_args(a).fast ELSE NoArgs,
           !.qualArgs = IF "quality" \in to
                        THEN gather_args(a).quality ELSE NoArgs]

\* search_dual or search_nodes_dual is called; calls do not share state, so
\* one call is followed to its end
search_call ==
    /\ srch.pc = "idle"
    /\ \E mode \in SearchModes, kind \in {"facts", "nodes"}, n \in Limits,
          g \in Groups, c \in {None, 1} :
         LET a  == [query |-> 1, group |-> g, limit |-> n,
                    center |-> IF kind = "facts" THEN c ELSE None]
         IN  /\ kind = "nodes" => c = None
             /\ srch' = Called(mode, kind, a)
    /\ UNCHANGED <<clients, phase, queue, task, wpc, cur, cancelReq, jobs,
                   fastStore, qualityStore, gen, queuedAtStop, responses,
                   sameDb, adm>>

\* ------------------------------------ POST /search/facts, /search/nodes
\* attributes initialize_graphiti sets on the Graphiti object the endpoints
\* receive, besides those of the class
ClientAttrs == {"fast_client", "fast_embedder"}

\* fields FactSearchRequest and NodeSearchRequest declare between them
RequestFields ==
    {"query", "group_ids", "max_facts", "max_nodes", "center_node_uuid",
     "entity_types"}

\* keyword parameters search_dual and search_nodes_dual accept between them
SearchParams ==
    {"fast_client", "default_client", "query", "group_ids", "num_results",
     "center_node_uuid", "config", "search_filter", "embedding_mode"}

\* what evaluating the endpoints' call expression raises: the keyword
\* values are evaluated left to right (graphiti.fast_client,
\* graphiti.quality_client, ..., request.embedding_mode), then the keywords
\* are bound to the parameters
endpoint_call_error ==
    IF "fast_client" \notin ClientAttrs \/ "quality_client" \notin ClientAttrs
    THEN "AttributeError"
    ELSE IF "embedding_mode" \notin RequestFields THEN "AttributeError"
    ELSE IF "quality_client" \notin SearchParams THEN "TypeError"
    ELSE "none"

\* search_facts or search_nodes is requested with the mode the client sent
search_endpoint ==
    /\ srch.pc = "idle"
    /\ \E mode \in SearchModes, kind \in {"facts", "nodes"}, n \in Limits,
          g \in Groups, c \in {None, 1} :
         LET a   == [query |-> 1, group |-> g, limit |-> n,
                     center |-> IF kind = "facts" THEN c ELSE None]
             req == [SrchIdle EXCEPT !.via = "endpoint", !.asked = mode,
                                     !.kind = kind, !.args = a, !.pc = "done"]
         IN  /\ kind = "nodes" => c = None
             /\ srch' =
                  IF kind = "facts" /\ n <= 0
                  THEN [req EXCEPT !.out = "ok"]
                  ELSE IF endpoint_call_error # "none"
                  THEN [req EXCEPT !.out = "error",
                                   !.err = endpoint_call_error]
                  ELSE [Called(mode, kind, a) EXCEPT !.via = "endpoint",
                                                     !.asked = mode]
    /\ UNCHANGED <<clients, phase, queue, task, wpc, cur, cancelReq, jobs,
                   fastStore, qualityStore, gen, queuedAtStop, responses,
                   sameDb, adm>>

\* fast_client.search / search_ returns its list
fast_search_returns ==
    /\ srch.fast = "pending"
    /\ \E l \in ResultLists :
         srch' = Resumed([srch EXCEPT !.fast = "done", !.fastRes = l])
    /\ UNCHANGED <<clients, phase, queue, task, wpc, cur, cancelReq, jobs,
                   fastStore, qualityStore, gen, queuedAtStop, responses,
                   sameDb, adm>>

\* default_client.search / search_ returns its list
default_search_returns ==
    /\ srch.qual = "pending"
    /\ \E l \in ResultLists :
         srch' = Resumed([srch EXCEPT !.qual = "done", !.qualRes = l])
    /\ UNCHANGED <<clients, phase, queue, task, wpc, cur, cancelReq, jobs,
                   fastStore, qualityStore, gen, queuedAtStop, responses,
                   sameDb, adm>>

\* fast_client.search / search_ raises
fast_search_fails ==
    /\ srch.fast = "pending"
    /\ srch' = Resumed([srch EXCEPT !.fast = "failed"])
    /\ UNCHANGED <<clients, phase, queue, task, wpc, cur, cancelReq, jobs,
                   fastStore, qualityStore, gen, queuedAtStop, responses,
                   sameDb, adm>>

\* default_client.search / search_ raises
default_search_fails ==
    /\ srch.qual = "pending"
    /\ srch' = Resumed([srch EXCEPT !.qual = "failed"])
    /\ UNCHANGED <<clients, phase, queue, task, wpc, cur, cancelReq, jobs,
                   fastStore, qualityStore, gen, queuedAtStop, responses,
                   sameDb, adm>>

\* ------------------------------- AsyncWorker used outside main.lifespan
\* asyncio.Queue() is built without maxsize: it is never full, so put never
\* suspends
queue_full_at_one(q) == Len(q) >= 1
queue_full(q) == FALSE

\* the modes of the jobs put on the queue here
WorkerModes == {"dual", "fast"}

\* await self.queue.put(job): the job is appended to the tail, whatever the
\* worker is doing
enqueue ==
    /\ Len(jobs) < MaxWorkerJobs
    /\ ~queue_full(queue)
    /\ \E m \in WorkerModes :
         jobs' = Append(jobs, NewJob(None, 1, m, 0, 0))
    /\ queue' = Append(queue, Len(jobs) + 1)
    /\ UNCHANGED <<clients, phase, task, wpc, cur, cancelReq, fastStore,
                   qualityStore, gen, queuedAtStop, responses, sameDb, adm,
                   srch>>

\* whether start() creates a task: it does so unconditionally, also when
\* self.task already holds a live task
start_creates_task(live) == TRUE

\* AsyncWorker.start called whenever no stop() is in progress: self.task is overwritten with a new
\* task; a task it held before keeps running, no longer referenced
any_start ==
    /\ start_creates_task(task # None /\ wpc[task] # "done")
    /\ \E t \in TaskIds :
         /\ wpc[t] = "none"
         /\ \A s \in TaskIds : s < t => wpc[s] # "none"
         /\ task' = t
         /\ wpc' = [wpc EXCEPT ![t] = "created"]
    /\ phase # "stopping"
    /\ phase' = "serving"
    /\ UNCHANGED <<clients, queue, cur, cancelReq, jobs, fastStore,
                   qualityStore, gen, queuedAtStop, responses, sameDb, adm,
                   srch>>

\* AsyncWorker.stop called at any time, first half: `if self.task:` cancel it
\* and await it
any_stop_cancel ==
    /\ phase \in {"stopped", "serving", "stop_raised"}
    /\ phase' = "stopping"
    /\ cancelReq' = [t \in TaskIds |->
                       IF t = task /\ wpc[t] \notin {"none", "done", "cancelled"}
                       THEN TRUE ELSE cancelReq[t]]
    /\ queuedAtStop' = {queue[i] : i \in 1..Len(queue)}
    /\ UNCHANGED <<clients, queue, task, wpc, cur, jobs, fastStore,
                   qualityStore, gen, responses, sameDb, adm, srch>>

\* the task create_task made runs for the first time: worker() enters its
\* loop and its try block and awaits queue.get()
worker_first_step(t) ==
    /\ wpc[t] = "created"
    /\ ~cancelReq[t]
    /\ wpc' = [wpc EXCEPT ![t] = "get"]
    /\ UNCHANGED <<clients, phase, queue, task, cur, cancelReq, jobs,
                   fastStore, qualityStore, gen, queuedAtStop, responses,
                   sameDb, adm, srch>>

\* task.cancel() reached the task before its first step: CancelledError is
\* raised where worker() begins, outside its try block, so nothing catches
\* it and the task ends cancelled instead of returning
cancelled_before_first_step(t) ==
    /\ wpc[t] = "created"
    /\ cancelReq[t]
    /\ wpc' = [wpc EXCEPT ![t] = "cancelled"]
    /\ cancelReq' = [cancelReq EXCEPT ![t] = FALSE]
    /\ UNCHANGED <<clients, phase, queue, task, cur, jobs, fastStore,
                   qualityStore, gen, queuedAtStop, responses, sameDb, adm,
                   srch>>

\* AsyncWorker.stop, `await self.task` on a task that ended cancelled: the
\* await raises CancelledError out of stop(), whose get_nowait loop is not
\* reached
stop_await_raises ==
    /\ phase = "stopping"
    /\ task # None
    /\ wpc[task] = "cancelled"
    /\ phase' = "stop_raised"
    /\ UNCHANGED <<clients, queue, task, wpc, cur, cancelReq, jobs, fastStore,
                   qualityStore, gen, queuedAtStop, responses, sameDb, adm,
                   srch>>

\* the store call a job awaits is itself cancelled and raises CancelledError
\* into the job although no one cancelled the worker task: the error passes
\* `except Exception` and reaches the loop's CancelledError handler
job_raises_cancelled(t) ==
    /\ wpc[t] \in {"fast_leg", "quality_leg", "fast_only", "quality_only"}
    /\ ~cancelReq[t]
    /\ jobs' = [jobs EXCEPT ![cur[t]] =
                  [jobs[cur[t]] EXCEPT !.status = "cancelled",
                                       !.cause = "cancelled_inside"]]
    /\ wpc' = [wpc EXCEPT ![t] = after_job_cancelled]
    /\ cur' = [cur EXCEPT ![t] = None]
    /\ UNCHANGED <<clients, phase, queue, task, cancelReq, fastStore,
                   qualityStore, gen, queuedAtStop, responses, sameDb, adm,
                   srch>>

\* ------------------------------------------------------ specification
Next ==
    \/ initialize_graphiti
    \/ start
    \/ add_episodes
    \/ \E t \in TaskIds : worker_get(t)
    \/ \E t \in TaskIds : fast_leg_ok(t)
    \/ \E t \in TaskIds : fast_leg_fail(t)
    \/ \E t \in TaskIds : quality_leg_ok(t)
    \/ \E t \in TaskIds : quality_leg_fail(t)
    \/ \E t \in TaskIds : single_ok(t)
    \/ \E t \in TaskIds : single_fail(t)
    \/ \E t \in TaskIds : worker_cancelled(t)
    \/ stop_cancel
    \/ stop_drain
    \/ close_graphiti

Spec == Init /\ [][Next]_vars

\* the service once main.lifespan has started it, with either database
\* layout, taking ingestion, delete and clear requests
InitStores ==
    /\ clients = TRUE
    /\ phase = "serving"
    /\ queue = <<>>
    /\ task = 1
    /\ wpc = [t \in TaskIds |-> IF t = 1 THEN "get" ELSE "none"]
    /\ cur = [t \in TaskIds |-> None]
    /\ cancelReq = [t \in TaskIds |-> FALSE]
    /\ jobs = <<>>
    /\ fastStore = {}
    /\ qualityStore = {}
    /\ gen = 0
    /\ queuedAtStop = {}
    /\ responses = <<>>
    /\ sameDb \in BOOLEAN
    /\ adm = AdmIdle
    /\ srch = SrchIdle

\* requests whose job reaches a database: the three modes add_episode_task
\* serves
StoreModes == {"dual", "fast", "quality"}
add_episodes_few == submit(MaxStoreJobs, StoreModes)

\* ingestion steps of the running worker that lead to a database write
IngestionWrites ==
    \/ add_episodes_few
    \/ \E t \in TaskIds : worker_get(t)
    \/ \E t \in TaskIds : fast_leg_ok(t)
    \/ \E t \in TaskIds : quality_leg_ok(t)
    \/ \E t \in TaskIds : single_ok(t)

\* all ingestion steps of the running worker
Ingestion ==
    \/ IngestionWrites
    \/ \E t \in TaskIds : fast_leg_fail(t)
    \/ \E t \in TaskIds : quality_leg_fail(t)
    \/ \E t \in TaskIds : single_fail(t)

NextDelete ==
    \/ IngestionWrites
    \/ delete_request
    \/ admin_default
    \/ admin_fast
    \/ admin_store_error

NextClear ==
    \/ Ingestion
    \/ clear_request
    \/ admin_default
    \/ admin_fast
    \/ admin_store_error

\* the started service with two databases, taking search calls
InitSearch == InitStores /\ ~sameDb

NextSearch ==
    \/ search_call
    \/ search_endpoint
    \/ fast_search_returns
    \/ default_search_returns
    \/ fast_search_fails
    \/ default_search_fails

SpecSearch == InitSearch /\ [][NextSearch]_vars

\* an AsyncWorker just constructed, with the clients initialized, whose
\* start, stop and queue.put are called in any order
InitWorker ==
    /\ clients = TRUE
    /\ phase = "stopped"
    /\ queue = <<>>
    /\ task = None
    /\ wpc = [t \in TaskIds |-> "none"]
    /\ cur = [t \in TaskIds |-> None]
    /\ cancelReq = [t \in TaskIds |-> FALSE]
    /\ jobs = <<>>
    /\ fastStore = {}
    /\ qualityStore = {}
    /\ gen = 0
    /\ queuedAtStop = {}
    /\ responses = <<>>
    /\ sameDb = FALSE
    /\ adm = AdmIdle
    /\ srch = SrchIdle

NextWorker ==
    \/ enqueue
    \/ any_start
    \/ any_stop_cancel
    \/ stop_drain
    \/ stop_await_raises
    \/ \E t \in TaskIds : worker_first_step(t)
    \/ \E t \in TaskIds : cancelled_before_first_step(t)
    \/ \E t \in TaskIds : worker_get(t)
    \/ \E t \in TaskIds : fast_leg_ok(t)
    \/ \E t \in TaskIds : quality_leg_ok(t)
    \/ \E t \in TaskIds : single_ok(t)
    \/ \E t \in TaskIds : worker_cancelled(t)
    \/ \E t \in TaskIds : job_raises_cancelled(t)

SpecWorker == InitWorker /\ [][NextWorker]_vars

\* the job task t is inside comes to its next await or to its end, by
\* returning or by raising
job_step(t) ==
    \/ fast_leg_ok(t)
    \/ fast_leg_fail(t)
    \/ quality_leg_ok(t)
    \/ quality_leg_fail(t)
    \/ single_ok(t)
    \/ single_fail(t)
    \/ job_raises_cancelled(t)

\* the worker with stop() never called
NextRun ==
    \/ enqueue
    \/ any_start
    \/ \E t \in TaskIds : worker_first_step(t)
    \/ \E t \in TaskIds : worker_get(t)
    \/ \E t \in TaskIds : job_step(t)

\* the event loop runs every task that is ready, and every job that is
\* executed terminates
FairRun ==
    \A t \in TaskIds :
        /\ WF_vars(worker_first_step(t))
        /\ WF_vars(worker_get(t))
        /\ WF_vars(job_step(t))

SpecRun == InitWorker /\ [][NextRun]_vars /\ FairRun
SpecDelete == InitStores /\ [][NextDelete]_vars
SpecClear  == InitStores /\ [][NextClear]_vars

TypeOK ==
    /\ clients \in BOOLEAN
    /\ phase \in {"boot", "init", "serving", "stopping", "stopped", "closed",
                 "stop_raised"}
    /\ task \in {None} \cup TaskIds
    /\ Len(jobs) <= MaxJobs
    /\ \A i \in 1..Len(queue) : queue[i] \in JobIds
    /\ \A t \in TaskIds :
         /\ wpc[t] \in {"none", "created", "get", "fast_leg", "quality_leg",
                        "fast_only", "quality_only", "done", "cancelled"}
         /\ (cur[t] # None) <=> (wpc[t] \in {"fast_leg", "quality_leg",
                                             "fast_only", "quality_only"})

\* ------------------------------------------------------------- properties
Ended(j)   == jobs[j].status \in {"ok", "failed", "cancelled"}
Begun(j)   == jobs[j].execs > 0
InQueue(j) == \E i \in 1..Len(queue) : queue[i] = j
Running(t) == wpc[t] \notin {"none", "done", "cancelled"}
FailsNow(j) == jobs[j].status # "failed" /\ jobs'[j].status = "failed"

\* C1: with the worker started once, jobs run one at a time in enqueue order:
\* if a was enqueued before b and b has begun, a has already ended, and no
\* two jobs are running at once.
C1_FifoOneAtATime ==
    /\ \A a, b \in JobIds : (a < b /\ Begun(b)) => Ended(a)
    /\ Cardinality({j \in JobIds : jobs[j].status = "running"}) <= 1

C1_Witness ==
    /\ Len(jobs) >= 2
    /\ jobs[1].status = "failed" /\ jobs[1].group # jobs[2].group
    /\ jobs[2].status = "running"

\* C2: an exception raised inside a job is caught by the worker loop and does
\* not end it: in the step in which a job fails, the worker that ran it goes
\* back to queue.get() and the jobs still queued stay queued.
C2_FailureIsolated ==
    [][\A j \in JobIds : FailsNow(j) =>
          (/\ \A t \in TaskIds : Running(t) => wpc'[t] = "get"
           /\ \A k \in JobIds : (k # j /\ InQueue(k)) =>
                 (\E i \in 1..Len(queue') : queue'[i] = k))]_vars

C2_Witness ==
    /\ Len(jobs) >= 2
    /\ jobs[1].status = "failed"
    /\ jobs[2].status = "ok"

\* C3: once stop() has returned the queue is empty, no worker task is alive,
\* no job is queued or running, every job that was queued when stop() was
\* called has been discarded without ever being started, and no later step
\* changes any job or store.
C3_StopDiscards ==
    /\ [](\A j \in queuedAtStop : ~Begun(j))
    /\ [](phase \in {"stopped", "closed"} =>
            /\ queue = <<>>
            /\ \A t \in TaskIds : ~Running(t)
            /\ \A j \in JobIds : jobs[j].status \notin {"queued", "running"}
            /\ \A j \in queuedAtStop : jobs[j].status = "discarded")
    /\ [][(phase \in {"stopped", "closed"}) =>
            (/\ jobs' = jobs
             /\ fastStore' = fastStore
             /\ qualityStore' = qualityStore)]_vars

C3_Witness ==
    /\ phase = "stopped"
    /\ Len(jobs) >= 2
    /\ jobs[1].status = "cancelled"
    /\ jobs[2].status = "discarded"

\* C4: every job is started at most once, and a job whose execution has ended
\* (success, caught failure or cancellation) is never on the queue again.
C4_AtMostOnce ==
    \A j \in JobIds :
        /\ jobs[j].execs <= 1
        /\ Ended(j) => (~InQueue(j) /\ jobs[j].execs = 1)

C4_Witness ==
    /\ Len(jobs) >= 2
    /\ jobs[1].status = "failed" /\ jobs[1].execs = 1
    /\ jobs[2].status = "cancelled" /\ jobs[2].execs = 1

\* C5: for every episode the worker has processed, the extraction step
\* (add_episode) was invoked exactly once.
C5_ExtractExactlyOnce ==
    \A j \in JobIds : Ended(j) => jobs[j].extracts = 1

\* C6 as stated: the dual-save has returned to its caller as soon as its fast
\* leg has completed, without waiting for the quality-store save.
C6_ReturnsAfterFastLeg ==
    \A j \in JobIds :
        (jobs[j].mode = "dual" /\ jobs[j].fastRec # NoRec
            /\ jobs[j].status # "cancelled")
        => jobs[j].dual = "returned"

\* C6 amended: the dual-save returns only after both legs have completed: when
\* it has returned the quality save has been invoked once and has written its
\* episode, and while the quality save is in flight the worker is still
\* inside that job.
C6_ReturnsAfterBothLegs ==
    \A j \in JobIds :
        /\ jobs[j].dual = "returned" =>
              /\ jobs[j].fastRec # NoRec
              /\ jobs[j].qualRec # NoRec
              /\ jobs[j].qattempts = 1
        /\ jobs[j].dual = "quality_leg" =>
              /\ jobs[j].status = "running"
              /\ \E t \in TaskIds : wpc[t] = "quality_leg" /\ cur[t] = j

C6_Witness ==
    \E j \in JobIds : jobs[j].dual = "returned" /\ jobs[j].status = "ok"

\* C7: in a dual-save the quality-store save is invoked only after the fast
\* leg has returned successfully; if the fast leg fails the operation raises
\* to its caller and the quality store gets no write for that episode.
C7_QualityOnlyAfterFast ==
    \A j \in JobIds :
        /\ (jobs[j].mode = "dual" /\ jobs[j].qattempts > 0) =>
              (jobs[j].fastRec # NoRec /\ jobs[j].cause # "fast")
        /\ jobs[j].cause = "fast" =>
              /\ jobs[j].dual = "raised"
              /\ jobs[j].status = "failed"
              /\ jobs[j].qattempts = 0
              /\ jobs[j].qualRec = NoRec

C7_Witness ==
    \E j \in JobIds : jobs[j].cause = "fast" /\ jobs[j].status = "failed"

\* C8 as stated: a failure of the quality leg is caught inside the
\* replication, so the dual-save does not raise to its caller.
C8_QualityFailureSwallowed ==
    \A j \in JobIds : jobs[j].cause = "quality" => jobs[j].dual # "raised"

\* C8 amended: a failure of the quality-store save propagates out of the
\* dual-save to its caller; the job fails and the exception is caught by the
\* worker loop.
C8_QualityFailurePropagates ==
    \A j \in JobIds :
        jobs[j].cause = "quality" =>
            /\ jobs[j].dual = "raised"
            /\ jobs[j].status = "failed"
            /\ \A t \in TaskIds : cur[t] # j

C8_Witness ==
    \E j \in JobIds : jobs[j].cause = "quality"

\* C9: when the quality leg fails, the fast store is left as it was (no
\* rollback), the quality save is never invoked a second time for that
\* episode and the job is not requeued (no retry), and the worker goes back
\* to the queue with the later jobs still on it.
C9_NoRollbackNoRetry ==
    /\ [](\A j \in JobIds : jobs[j].qattempts <= 1)
    /\ [](\A j \in JobIds : jobs[j].cause = "quality" => ~InQueue(j))
    /\ [][\A j \in JobIds :
            (jobs[j].cause # "quality" /\ jobs'[j].cause = "quality") =>
                (/\ fastStore' = fastStore
                 /\ StoreRec(jobs[j].fastRec, "fast") \in fastStore'
                 /\ queue' = queue
                 /\ \A t \in TaskIds : (Running(t) => wpc'[t] = "get"))]_vars

C9_Witness ==
    /\ Len(jobs) >= 2
    /\ jobs[1].cause = "quality"
    /\ StoreRec(jobs[1].fastRec, "fast") \in fastStore
    /\ jobs[2].status = "ok"

\* C10: an episode a dual-save wrote to both stores has the same uuid and the
\* same group_id in both, and after a successful dual-save both stores hold
\* the episode under that one key.
C10_SameKeyInBothStores ==
    \A j \in JobIds :
        jobs[j].mode = "dual" =>
            /\ (jobs[j].fastRec # NoRec /\ jobs[j].qualRec # NoRec) =>
                  jobs[j].fastRec = jobs[j].qualRec
            /\ jobs[j].dual = "returned" =>
                  /\ jobs[j].fastRec # NoRec
                  /\ jobs[j].qualRec = jobs[j].fastRec
                  /\ jobs[j].fastRec.group = jobs[j].group

C10_Witness ==
    \E j \in JobIds :
        /\ jobs[j].dual = "returned"
        /\ jobs[j].uuid = None
        /\ StoreRec(jobs[j].fastRec, "fast") \in fastStore
        /\ StoreRec(jobs[j].fastRec, "quality") \in qualityStore

\* ------------------------------------------------- stores and searches
\* the step on which a dual-save's replication into the quality store ends
Replicates(j) ==
    /\ j \in JobIds
    /\ jobs[j].dual = "quality_leg"
    /\ jobs'[j].dual = "returned"

\* the entity nodes and edges a store holds under an episode's key
VectorsOf(store, key) ==
    {r \in store : r.uuid = key.uuid /\ r.kind \in {"node", "edge"}}

\* C11 as stated: on every replication step the nodes and edges the quality
\* store then holds for the episode carry no fast-embedder vector, and the
\* fast store is left exactly as it was, whatever the database layout.
C11_ReplicationLeavesFastStore ==
    [][\A j \in JobIds :
          Replicates(j) =>
             (/\ \A r \in VectorsOf(qualityStore', jobs'[j].qualRec) :
                     r.emb # "fast"
              /\ fastStore' = fastStore)]_vars

\* C11: on every replication step the nodes and edges the quality store then
\* holds for the episode carry the quality embedder's vectors and none of the
\* fast embedder's; the fast store is left exactly as it was when the two
\* clients use different databases.
C11_ReplicationReembeds ==
    [][\A j \in JobIds :
          Replicates(j) =>
             (/\ VectorsOf(qualityStore', jobs'[j].qualRec) # {}
              /\ \A r \in VectorsOf(qualityStore', jobs'[j].qualRec) :
                     r.emb = "quality"
              /\ (~sameDb) => (fastStore' = fastStore))]_vars

C11_Witness ==
    /\ ~sameDb
    /\ \E j \in JobIds :
         /\ jobs[j].dual = "returned"
         /\ \E r \in VectorsOf(fastStore, jobs[j].fastRec) : r.emb = "fast"
         /\ \E r \in VectorsOf(qualityStore, jobs[j].qualRec) :
               r.emb = "quality"

\* a dual-mode call that returned a list
DualReturned(kind) ==
    /\ srch.mode = "dual" /\ srch.kind = kind
    /\ srch.pc = "done" /\ srch.out = "ok"

\* C12: for every limit >= 0 and every pair of store results, the list a
\* dual-mode fact search returns has min(limit, total) elements, its i-th
\* element being the i-th quality result while those last and the fast
\* results in their order after them; nothing is dropped as a duplicate.
C12_QualityThenFastTruncated ==
    (DualReturned("facts") /\ srch.args.limit >= 0) =>
        LET q == srch.qualRes
            f == srch.fastRes
        IN  /\ Len(srch.res) = Min(srch.args.limit, Len(q) + Len(f))
            /\ \A i \in 1..Len(srch.res) :
                  srch.res[i] = IF i <= Len(q) THEN q[i] ELSE f[i - Len(q)]

C12_Witness ==
    /\ DualReturned("facts")
    /\ srch.args.limit = 3
    /\ srch.qualRes = <<1, 2>>
    /\ srch.fastRes = <<1, 2>>
    /\ srch.res = <<1, 2, 1>>

\* C13: a dual-mode call starts both store searches in one step, neither
\* waiting for the other, each with the query, group_ids, limit and
\* center_node_uuid of the call; and a merged list is returned only when
\* both searches have returned.
C13_BothIssuedThenMerged ==
    /\ [][(srch.pc = "idle" /\ srch'.mode = "dual") =>
            (/\ srch'.fast = "pending" /\ srch'.qual = "pending"
             /\ srch'.fastArgs = srch'.args
             /\ srch'.qualArgs = srch'.args)]_vars
    /\ []((srch.mode = "dual" /\ srch.out = "ok") =>
            (srch.fast = "done" /\ srch.qual = "done"))
    /\ []((srch.mode = "dual" /\ srch.pc = "await") =>
            (srch.fast # "none" /\ srch.qual # "none"))

C13_Witness ==
    /\ srch.mode = "dual"
    /\ srch.pc = "await"
    /\ srch.qual = "done" /\ srch.fast = "pending"
    /\ srch.args.center # None
    /\ srch.fastArgs = srch.qualArgs

\* C14: when either store's search fails during a dual-mode call, the call
\* ends in an error and hands no list to the caller, whatever the other
\* store returned.
C14_DualFailureFailsAll ==
    (srch.mode = "dual" /\ "failed" \in {srch.fast, srch.qual}) =>
        /\ srch.pc = "done"
        /\ srch.out = "error"
        /\ srch.res = <<>>

C14_Witness ==
    /\ srch.mode = "dual" /\ srch.kind = "facts"
    /\ srch.fast = "done" /\ srch.fastRes = <<1, 2>>
    /\ srch.qual = "failed"
    /\ srch.out = "error"

\* C15: in mode fast or quality exactly one store search is made, on the
\* store the mode names, never on the other one, and once it has returned
\* the call returns its list as it is.
C15_SingleStoreAsIs ==
    (srch.mode \in {"fast", "quality"}) =>
        /\ (srch.mode = "fast") =>
              (srch.fast # "none" /\ srch.qual = "none")
        /\ (srch.mode = "quality") =>
              (srch.qual # "none" /\ srch.fast = "none")
        /\ (srch.pc = "done" /\ srch.out = "ok") =>
              srch.res = (IF srch.mode = "fast" THEN srch.fastRes
                          ELSE srch.qualRes)

\* C16: a search whose mode is quality is served by the quality store and
\* is not rejected as an invalid mode.
C16_QualityModeServed ==
    (srch.mode = "quality") =>
        (srch.qual # "none" /\ srch.err # "ValueError")

\* ------------------------------------------------------ delete and clear
\* the step on which a delete or clear handler returns its Result
AdminReturns(op) ==
    /\ adm.op = op
    /\ adm.pc \in {"quality", "fast"}
    /\ adm'.pc = "done"

\* no job out of js executed while the request now returning was in
\* progress: each had ended when it arrived or has not been started
NotRunSince(js) ==
    \A j \in js :
        j \in adm.ended0 \/ (j \in DOMAIN jobs' /\ jobs'[j].status = "queued")

\* C17 as stated: when delete-group for g returns without error, neither
\* store holds an edge, node or episode of group g.
C17_GroupGoneAtReturn ==
    [][AdminReturns("delete_group") =>
          (/\ Targets("delete_group", adm.arg, qualityStore') = {}
           /\ Targets("delete_group", adm.arg, fastStore') = {})]_vars

\* C17: when delete-group for g returns without error and no ingestion job
\* of group g executed while the delete was in progress, neither store holds
\* an edge, node or episode of group g.
C17_GroupGoneIfNoIngestion ==
    [][(/\ AdminReturns("delete_group")
        /\ NotRunSince({j \in JobIds : jobs[j].group = adm.arg})) =>
          (/\ Targets("delete_group", adm.arg, qualityStore') = {}
           /\ Targets("delete_group", adm.arg, fastStore') = {})]_vars

C17_Witness ==
    /\ adm.op = "delete_group" /\ adm.pc = "done"
    /\ ~sameDb
    /\ \E j \in adm.ended0 :
         /\ jobs[j].group = adm.arg
         /\ jobs[j].dual = "returned"
    /\ Targets("delete_group", adm.arg, qualityStore) = {}
    /\ Targets("delete_group", adm.arg, fastStore) = {}

\* C18: in delete-entity-edge, delete-episode and delete-group, each store's
\* half ends with the target gone from that store and the handler moving on
\* (to the fast store, then to its success Result) whether or not the target
\* was found there; the only thing that fails a delete is a store error
\* other than not-found.
C18_NotFoundIsBenign ==
    [][(adm.op \in DeleteOps /\ adm.pc \in {"quality", "fast"}
            /\ adm' # adm) =>
          \/ adm'.pc = "error" /\ adm'.err = "store"
          \/ /\ adm.pc = "quality"
             /\ adm'.pc = "fast"
             /\ Targets(adm.op, adm.arg, qualityStore') = {}
          \/ /\ adm.pc = "fast"
             /\ adm'.pc = "done"
             /\ Targets(adm.op, adm.arg, fastStore') = {}]_vars

C18_Witness ==
    /\ adm.op = "delete_episodic_node" /\ adm.pc = "done"
    /\ ~sameDb
    /\ \E j \in adm.ended0 :
         /\ jobs[j].mode = "fast" /\ jobs[j].status = "ok"
         /\ jobs[j].fastRec.uuid = adm.arg
         /\ \E r \in fastStore : r.uuid = adm.arg /\ r.kind = "node"
    /\ Targets(adm.op, adm.arg, fastStore) = {}
    /\ qualityStore = {}

\* C19: a clear that returns while no ingestion job executed during it
\* leaves both stores empty, the second of two successive clears as well as
\* the first and also when both clients share one database; nothing but a
\* store error fails a clear.
C19_ClearIdempotent ==
    /\ [][(AdminReturns("clear") /\ NotRunSince(JobIds)) =>
            (fastStore' = {} /\ qualityStore' = {})]_vars
    /\ []((adm.op = "clear" /\ adm.pc = "error") => adm.err = "store")

C19_Witness ==
    /\ adm.op = "clear" /\ adm.pc = "done" /\ adm.again
    /\ sameDb
    /\ \E j \in adm.ended0 : jobs[j].status = "ok"
    /\ fastStore = {} /\ qualityStore = {}

\* -------------------------------------------------------------- submission
\* the step on which a POST /episodes request is answered
Submits == Len(responses') = Len(responses) + 1

\* C20: the step that answers a request of n episodes appends exactly n jobs
\* to the tail of the queue, the i-th of them carrying the i-th episode, and
\* answers success while none of them has been started; an answer once
\* given never changes, so it still reads success after a job of the request
\* has failed.
C20_AcceptedNotCompleted ==
    /\ [][Submits =>
            LET r == Len(responses')
                n == responses'[r].n
                k == Len(jobs)
            IN  /\ Len(jobs') = k + n
                /\ queue' = queue \o [i \in 1..n |-> k + i]
                /\ \A i \in 1..n :
                      /\ jobs'[k + i].req = r
                      /\ jobs'[k + i].pos = i
                      /\ jobs'[k + i].status = "queued"
                      /\ jobs'[k + i].execs = 0
                /\ responses'[r].success]_vars
    /\ [][\A r \in 1..Len(responses) :
            /\ r <= Len(responses')
            /\ responses'[r] = responses[r]]_vars
    /\ [](\A j \in JobIds :
            /\ jobs[j].req \in 1..Len(responses)
            /\ responses[jobs[j].req].success)

C20_Witness ==
    /\ Len(responses) = 1
    /\ responses[1].n = 2
    /\ Len(jobs) = 2
    /\ jobs[1].status = "failed" /\ jobs[1].pos = 1
    /\ jobs[2].status = "queued" /\ jobs[2].pos = 2
    /\ responses[1].success

\* --------------------------------------------- the worker used freely
\* the step that puts one job on the queue
Enqueues == Len(jobs') = Len(jobs) + 1

\* C21: in every state (no worker started, worker idle, worker inside a job,
\* a stop in progress, worker stopped) and for every queue length a put can
\* be taken at once, and the step that takes it appends the new job at the
\* tail of the queue and leaves the jobs already queued where they were.
C21_EnqueueNeverBlocks ==
    /\ [](Len(jobs) < MaxWorkerJobs => ENABLED enqueue)
    /\ [][Enqueues => queue' = Append(queue, Len(jobs'))]_vars

C21_Witness ==
    /\ phase = "stopped"
    /\ task # None /\ wpc[task] = "done"
    /\ Len(queue) = 2
    /\ jobs[1].status = "queued"

\* the step on which stop()'s cancellation reaches task t inside job j
CancelledInJob(t, j) ==
    /\ cancelReq[t]
    /\ cur[t] = j
    /\ j # None
    /\ wpc'[t] # wpc[t]

\* C22: when stop()'s cancellation reaches a worker that is inside a job, the
\* job ends cancelled there: no further leg of it is started (a dual job hit
\* in its fast leg never invokes the quality save), what it had persisted in
\* the fast store stays, the queue is left as it is and the worker's loop
\* has ended and never takes a job again.
C22_CancelledAtSuspensionPoint ==
    /\ [][\A t \in TaskIds : \A j \in JobIds :
            CancelledInJob(t, j) =>
               (/\ jobs'[j].status = "cancelled"
                /\ jobs'[j].qattempts = jobs[j].qattempts
                /\ jobs'[j].extracts = jobs[j].extracts
                /\ jobs[j].fastRec # NoRec =>
                      Extracted(jobs[j].fastRec, "fast") \subseteq fastStore'
                /\ queue' = queue
                /\ wpc'[t] = "done")]_vars
    /\ [][\A t \in TaskIds : wpc[t] = "done" => wpc'[t] = "done"]_vars
    /\ [](\A j \in JobIds : jobs[j].status = "cancelled" => ~InQueue(j))

C22_Witness ==
    /\ phase = "stopped"
    /\ Len(jobs) >= 2
    /\ jobs[1].dual = "cancelled"
    /\ jobs[1].qattempts = 1
    /\ Extracted(jobs[1].fastRec, "fast") \subseteq fastStore
    /\ jobs[1].qualRec = NoRec /\ qualityStore = {}
    /\ jobs[2].execs = 0

\* ------------------------------------------------- modes of ingestion
\* a job the worker has run to its end without a store call failing and
\* without being cancelled
RanThrough(j) ==
    /\ Ended(j)
    /\ jobs[j].status # "cancelled"
    /\ jobs[j].cause \notin {"clients", "fast", "quality", "single"}

\* the stores a job has written to
WroteTo(j) ==
    (IF jobs[j].fastRec # NoRec THEN {"fast"} ELSE {})
        \cup (IF jobs[j].qualRec # NoRec THEN {"quality"} ELSE {})

\* the stores the documented modes select: dual both, fast the fast store,
\* quality and anything else the quality store
Selected(m) ==
    IF m = "dual" THEN {"fast", "quality"}
    ELSE IF m = "fast" THEN {"fast"}
    ELSE {"quality"}

\* C23: every job that ran through wrote to exactly the stores its request's
\* embedding mode selects, and a dual job wrote the fast store before the
\* quality store.
C23_WritesSelectedStores ==
    \A j \in JobIds :
        /\ RanThrough(j) => WroteTo(j) = Selected(jobs[j].mode)
        /\ (jobs[j].mode = "dual" /\ jobs[j].qualRec # NoRec) =>
              jobs[j].fastRec # NoRec

\* C24: every job of a request that names no embedding mode, once it ran
\* through, was ingested as a dual job and its episode is in both stores.
C24_DefaultIsDual ==
    \A j \in JobIds :
        (jobs[j].mode = NoMode /\ RanThrough(j)) =>
            /\ jobs[j].dual = "returned"
            /\ StoreRec(jobs[j].fastRec, "fast") \in fastStore
            /\ StoreRec(jobs[j].qualRec, "quality") \in qualityStore

\* ------------------------------------------------------ search routing
\* an endpoint request that asks for results
EndpointAsked ==
    /\ srch.via = "endpoint"
    /\ srch.kind = "nodes" \/ srch.args.limit > 0

\* C25: a /search/facts or /search/nodes request is routed by its
\* embedding_mode: fast queries the fast database only, default the quality
\* database only, dual both; and a fact request that has ended returned the
\* routed search's results in their order.
C25_EndpointsRouteByMode ==
    EndpointAsked =>
        /\ srch.asked = "fast" => (srch.fast # "none" /\ srch.qual = "none")
        /\ srch.asked = "default" => (srch.qual # "none" /\ srch.fast = "none")
        /\ srch.asked = "dual" => (srch.fast # "none" /\ srch.qual # "none")
        /\ (srch.kind = "facts" /\ srch.pc = "done"
               /\ srch.asked \in {"fast", "default", "dual"}
               /\ "failed" \notin {srch.fast, srch.qual}) =>
              (srch.out = "ok" /\ srch.res = SearchResult(srch))

\* C29: a call of search_dual or search_nodes_dual whose embedding mode is
\* none of fast, default and dual has ended with the invalid-mode error and
\* has queried neither store.
C29_InvalidModeRejected ==
    (srch.via = "direct" /\ srch.mode \notin {"fast", "default", "dual"}) =>
        /\ srch.pc = "done"
        /\ srch.out = "error" /\ srch.err = "ValueError"
        /\ srch.fast = "none" /\ srch.qual = "none"
        /\ srch.res = <<>>

C29_Witness ==
    /\ srch.via = "direct"
    /\ srch.mode = "quality" /\ srch.kind = "nodes"
    /\ srch.err = "ValueError"

\* ------------------------------------- ordering of quality replications
\* the quality-store save of dual job j has been started and is not over
Replicating(j) == jobs[j].dual = "quality_leg"

\* nothing prevents the worker of the service from being resumed
WorkerFree ==
    /\ phase = "serving"
    /\ \A t \in TaskIds : ~cancelReq[t]

\* C26 as stated: the quality replication of an earlier episode does not
\* hold back later ingestion: while it is in progress and a later episode is
\* queued, the worker can take that episode and begin its fast leg.
C26_LaterFastLegMayOverlap ==
    \A a \in JobIds :
        (Replicating(a) /\ queue # <<>> /\ WorkerFree) =>
            \E t \in TaskIds : wpc[t] = "get"

\* C26 amended: quality replications are ordered with later ingestion: while
\* the replication of an episode is in progress no later episode has begun,
\* and when a later episode begins, the replication of every earlier dual
\* episode is over: done if the episode succeeded, else never to happen.
C26_ReplicationsInSubmissionOrder ==
    \A a, b \in JobIds :
        a < b =>
            /\ Replicating(a) => (~Begun(b) /\ jobs[b].dual = "none")
            /\ (Begun(b) /\ jobs[a].mode = "dual") =>
                  /\ ~Replicating(a)
                  /\ jobs[a].status = "ok" => jobs[a].qualRec # NoRec
                  /\ jobs[a].status # "ok" => jobs[a].qualRec = NoRec

C26_Witness ==
    /\ Len(jobs) >= 2
    /\ jobs[1].mode = "dual" /\ jobs[1].status = "ok"
    /\ jobs[1].qualRec # NoRec
    /\ Replicating(2)

\* --------------------------------------------- consumers of the queue
Consumers == {t \in TaskIds : Running(t)}

\* C27: for every sequence of Start, Stop and Enqueue calls at most one
\* consumer task is alive, and no two jobs of the queue are executing at
\* the same time.
C27_OneConsumer ==
    /\ Cardinality(Consumers) <= 1
    /\ Cardinality({j \in JobIds : jobs[j].status = "running"}) <= 1

\* C30: the worker loop ends only when Stop has cancelled it: a step in
\* which a consumer's loop ends is the step of a consumer whose
\* cancellation Stop had requested.
C30_LoopEndsOnlyOnStop ==
    [][\A t \in TaskIds :
          (Running(t) /\ wpc'[t] = "done") => cancelReq[t]]_vars

\* ------------------------------------------------- application shutdown
\* C28: at application shutdown every job that was still in the queue when
\* the shutdown began has been executed by the time the Graphiti clients
\* are closed.
C28_PendingJobsFinished ==
    phase = "closed" =>
        \A j \in queuedAtStop : Begun(j) /\ Ended(j)

\* ------------------------------------------------------ Stop returns
\* a call of stop() ends in this step, by returning or by raising
StopEnds == phase = "stopping" /\ phase' # "stopping"

\* C31: Stop returns without error from every worker state, a second Stop
\* after the first included, and when it returns the worker is stopped (no
\* consumer task is alive) and the queue is empty.
C31_StopReturnsStopped ==
    [][StopEnds =>
          (/\ phase' = "stopped"
           /\ queue' = <<>>
           /\ \A t \in TaskIds : wpc'[t] \in {"none", "done", "cancelled"})]_vars

\* ------------------------------------------------------- every job runs
\* C32: with the worker started and Stop never called, every enqueued job
\* is eventually dequeued and executed, given that every executed job
\* terminates.
C32_EveryJobRuns ==
    \A j \in 1..MaxWorkerJobs :
        (task # None /\ j \in JobIds) ~> (j \in JobIds /\ Begun(j))

\* ------------------------------------------- clear against the worker
\* the jobs that executed, in part at least, while the request now
\* returning was in progress
RanDuring ==
    {j \in JobIds : j \notin adm.ended0 /\ jobs'[j].status # "queued"}

\* the uuids under which job j has persisted its episode
PersistedBy(j) ==
    {k.uuid : k \in {jobs'[j].fastRec, jobs'[j].qualRec} \ {NoRec}}

\* C33 as stated: when clear returns successfully both stores are empty,
\* also when the worker executes a job while the clear is in progress.
C33_EmptyAtReturn ==
    [][AdminReturns("clear") =>
          (qualityStore' = {} /\ fastStore' = {})]_vars

\* C33 amended: when clear returns successfully, whatever either store
\* still holds was persisted by an ingestion job that executed while the
\* clear was in progress; everything older is gone from both stores.
C33_OnlyConcurrentWritesRemain ==
    [][AdminReturns("clear") =>
          (\A r \in qualityStore' \cup fastStore' :
              \E j \in RanDuring : r.uuid \in PersistedBy(j))]_vars

C33_Witness ==
    /\ adm.op = "clear" /\ adm.pc = "done"
    /\ ~sameDb
    /\ fastStore = {}
    /\ \E j \in JobIds \ adm.ended0 :
         /\ jobs[j].mode = "dual" /\ jobs[j].status = "ok"
         /\ jobs[j].fastRec # NoRec
         /\ \E r \in qualityStore : r.uuid = jobs[j].qualRec.uuid

\* ------------------------------------------------- frame of the deletes
\* the records a delete is not aimed at: those of other groups for
\* delete-group, those of other uuids for the two deletes by uuid
Untouched(op, a, store) ==
    IF op = "delete_group" THEN {r \in store : r.group # a}
    ELSE {r \in store : r.uuid # a}

\* one half of a delete handler runs on its database
DeleteStep ==
    /\ adm.op \in DeleteOps
    /\ adm.pc \in {"quality", "fast"}
    /\ adm' # adm

QualityDeleteFails ==
    /\ adm.op \in DeleteOps
    /\ adm.pc = "quality"
    /\ adm'.err = "store"

\* C35 as stated: a store error other than not-found raised in the quality
\* half of a delete reaches the caller, the fast half is then never
\* attempted, and the fast store is left as it was.
C35_FastStoreUnchanged ==
    [][QualityDeleteFails =>
          (adm'.pc = "error" /\ fastStore' = fastStore)]_vars

\* C35 amended: such an error reaches the caller and the fast half is never
\* attempted, so a fast store kept in a database of its own is left as it
\* was; with one shared database the fast client sees what the failed half
\* had already deleted, which is never a record outside the target.
C35_StoreErrorEndsDelete ==
    /\ [][QualityDeleteFails =>
            (/\ adm'.pc = "error"
             /\ (~sameDb) => (fastStore' = fastStore)
             /\ sameDb => (fastStore' = qualityStore')
             /\ Untouched(adm.op, adm.arg, fastStore')
                   = Untouched(adm.op, adm.arg, fastStore))]_vars
    /\ []((adm.op \in DeleteOps /\ adm.err = "store") => adm.pc = "error")
    /\ [][(adm.op \in DeleteOps /\ adm.pc = "error") =>
            (adm'.pc # "fast")]_vars

C35_Witness ==
    /\ adm.op = "delete_group" /\ adm.pc = "error" /\ adm.err = "store"
    /\ ~sameDb
    /\ \E r \in fastStore : r.group = adm.arg /\ r.kind = "edge"
    /\ \E r \in qualityStore : r.group = adm.arg /\ r.kind = "episode"
    /\ ~\E r \in qualityStore : r.group = adm.arg /\ r.kind = "edge"

\* ------------------------------------------- search beside the worker
\* C36: a search request is served without going through the ingestion
\* queue: every step of it leaves the queue, the worker and both stores as
\* they were, and a request that asks for results and whose store searches
\* did not fail ends with a result.
C36_SearchServedBesideQueue ==
    /\ [][(srch' # srch) =>
            UNCHANGED <<queue, task, wpc, cur, cancelReq, jobs, fastStore,
                        qualityStore>>]_vars
    /\ []((/\ srch.via = "endpoint"
           /\ srch.pc = "done"
           /\ srch.asked \in {"fast", "default", "dual"}
           /\ "failed" \notin {srch.fast, srch.qual}) =>
            srch.out = "ok")

\* ------------------------------------------------------- node search
\* s is a prefix of q
IsPrefix(s, q) == Len(s) <= Len(q) /\ s = SubSeq(q, 1, Len(s))

\* C37: a dual-mode node search returns the quality store's nodes followed
\* by the fast store's nodes, nothing dropped; and a dual-mode request to
\* the node-search endpoint whose store searches did not fail is answered
\* with at most max_nodes nodes, a prefix of that sequence.
C37_NodesQualityFirstTruncated ==
    /\ (srch.via = "direct" /\ DualReturned("nodes")) =>
          (srch.res = srch.qualRes \o srch.fastRes)
    /\ (/\ srch.via = "endpoint" /\ srch.kind = "nodes"
        /\ srch.asked = "dual" /\ srch.pc = "done"
        /\ "failed" \notin {srch.fast, srch.qual}) =>
          /\ srch.out = "ok"
          /\ Len(srch.res) <= Max(srch.args.limit, 0)
          /\ IsPrefix(srch.res, srch.qualRes \o srch.fastRes)

\* ------------------------------------------- clients and the worker
\* the part of the lifespan in which the clients exist
ClientsWindow == {"init", "serving", "stopping", "stopped"}

\* C38: over one lifespan the clients exist from before the worker is
\* started until after its Stop has returned: a consumer task is alive and a
\* job is running only while the clients are initialized, no job has ever
\* found them missing, and a call for the clients made outside that window
\* raises the not-initialized error while one made inside returns them.
C38_ClientsOutliveWorker ==
    /\ clients <=> (phase \in ClientsWindow)
    /\ (\E t \in TaskIds : Running(t)) => clients
    /\ \A j \in JobIds :
         /\ jobs[j].status = "running" => clients
         /\ jobs[j].cause # "clients"
    /\ \A m \in Modes :
         (add_episode_task_branch(m) = "clients") <=>
             (phase \notin ClientsWindow)

C38_Witness ==
    /\ phase = "closed" /\ ~clients
    /\ \E j \in JobIds : jobs[j].status = "ok"
    /\ \E j \in JobIds : jobs[j].status = "cancelled"
    /\ add_episode_task_branch("dual") = "clients"

====
